---------------------------- MODULE Spec2Model ----------------------------
(***************************************************************************)
(* Model of bluesky's QtGL simulation engine                               *)
(* (bluesky/simulation/qtgl/simulation.py, class Simulation) and of the    *)
(* GUI-side client mirror (bluesky/ui/qtgl/guiio.py, classes nodeData and  *)
(* GuiClient).                                                             *)
(*                                                                         *)
(* Units: every time of the engine is an integer number of milliseconds.   *)
(* The source keeps simt, simdt, deltclock, simtclock, ffstop, benchdt and *)
(* bencht in seconds (floats) and syst, sysdt in milliseconds; here the    *)
(* seconds-valued fields are scaled by 1000, so that the default timestep  *)
(* 0.05 s is 50 and int(simdt / dtmult * 1000) is trunc(simdt / dtmult).   *)
(***************************************************************************)
EXTENDS Integers, Sequences, FiniteSets, TLC

VARIABLES
    sim,          \* the Simulation object: a record of its fields
    is_headless,  \* settings.is_headless as stop() reads it; None until then
    ntraf,        \* bs.traf.ntraf
    scendata,     \* stack.get_scendata(): <<scentime, scencmd>>
    now,          \* the wall clock, int(time.time() * 1000)
    pc,           \* position of the simulation thread in doWork
    iter,         \* number of loop iterations begun
    obs,          \* what the current iteration of doWork has done so far
    ret,          \* the last operation called and what it returned
    pending,      \* the batch event being handled by event()
    act,          \* GuiClient.act
    nodedata,     \* GuiClient.nodedata: node id -> nodeData
    default_data, \* GuiClient.default_data: the nodeData of no node
    calls,        \* subscribe/unsubscribe/emit calls of the last GuiClient operation
    gret,         \* the last GuiClient operation called and what it returned
    gops,         \* number of GuiClient operations called
    shadow        \* node id -> polygon name -> the points last sent for it

simvars == <<sim, is_headless, ntraf, scendata, now, pc, iter, obs, ret, pending>>
guivars == <<act, nodedata, default_data, calls, gret, gops, shadow>>
vars == <<sim, is_headless, ntraf, scendata, now, pc, iter, obs, ret, pending,
          act, nodedata, default_data, calls, gret, gops, shadow>>

-----------------------------------------------------------------------------
(* Bounds of the model *)

\* loop iterations of doWork that a run begins
MaxIter == 3

\* stack commands that one call of stack.process() executes
MaxCmds == 1

\* events that one call of manager.processEvents() dispatches
MaxEvents == 1

\* points of a polygon
MaxPts == 3

\* elements of a polygon buffer
MaxBuf == 16

\* GuiClient operations of a run
MaxGuiOps == 3

\* [ms] wall-clock time that the work of one loop iteration takes
WorkMs == 10

\* [ms] the wall clock when the run begins
StartTime == 1000

-----------------------------------------------------------------------------
(* Values *)

\* Python's None, and an optional value that is present
None == <<>>
Some(v) == <<v>>

\* simulation modes: init, op, hold, end = list(range(4))
init == 0
op == 1
hold == 2
end == 3

\* [ms] time of one day for clock time (24 * 3600 s)
onedayinsec == 86400000

\* settings.set_variable_defaults(simdt=0.05), in ms
default_simdt == 50

\* int(x / y): Python's int() truncates toward zero
TruncDiv(x, y) ==
    IF (x >= 0) = (y > 0) THEN (IF x >= 0 THEN x ELSE -x) \div (IF y > 0 THEN y ELSE -y)
    ELSE -((IF x >= 0 THEN x ELSE -x) \div (IF y > 0 THEN y ELSE -y))

\* abs(dt)
Abs(x) == IF x >= 0 THEN x ELSE -x

-----------------------------------------------------------------------------
(* Simulation: construction and methods, as functions of the object s.     *)
(* t is the wall clock read by time.time() during the call.                 *)

\* Simulation.__init__
SimInit ==
    [ running   |-> TRUE,
      state     |-> init,
      prevstate |-> None,
      syst      |-> 0,
      bencht    |-> 0,
      benchdt   |-> -1,
      simt      |-> 0,
      simdt     |-> default_simdt,
      dtmult    |-> 1,
      deltclock |-> 0,
      simtclock |-> 0,
      sysdt     |-> TruncDiv(default_simdt, 1),
      ffmode    |-> FALSE,
      ffstop    |-> None ]

\* stop, ending the loop on every host
stop_loop(s, headless) ==
    [s EXCEPT !.state = end,
              !.running = FALSE]

\* Simulation.stop
stop(s, headless) ==
    [s EXCEPT !.state = end,
              !.running = IF headless THEN FALSE ELSE @]

\* Simulation.start
start(s, t) ==
    [s EXCEPT !.syst = IF s.ffmode THEN t ELSE @,
              !.ffmode = FALSE,
              !.state = op]

\* Simulation.pause
pause(s) == [s EXCEPT !.state = hold]

\* reset, leaving simt as it is
reset_keeps_simt(s) ==
    [s EXCEPT !.deltclock = 0,
              !.simtclock = s.simt,
              !.state = init,
              !.ffmode = FALSE]

\* Simulation.reset (the fields of the object; the collaborators it resets
\* are reset by the action that calls it)
reset(s) ==
    [s EXCEPT !.simt = 0,
              !.deltclock = 0,
              !.simtclock = 0,
              !.state = init,
              !.ffmode = FALSE]

\* quit, ending the simulation instead of the loop
quit_state(s) == [s EXCEPT !.state = end]

\* Simulation.quit
quit(s) == [s EXCEPT !.running = FALSE]

\* Simulation.setDt
setDt(s, dt) ==
    [s EXCEPT !.simdt = Abs(dt),
              !.sysdt = TruncDiv(Abs(dt), s.dtmult)]

\* setDtMultiplier, recomputing sysdt before dtmult is assigned
setDtMultiplier_stale(s, mult) ==
    [s EXCEPT !.dtmult = mult,
              !.sysdt = TruncDiv(s.simdt, s.dtmult)]

\* Simulation.setDtMultiplier
setDtMultiplier(s, mult) ==
    [s EXCEPT !.dtmult = mult,
              !.sysdt = TruncDiv(s.simdt, mult)]

\* fastforward, taking nsec for the end time itself
fastforward_abs(s, nsec) ==
    [s EXCEPT !.ffmode = TRUE,
              !.ffstop = IF nsec # None THEN Some(nsec[1]) ELSE None]

\* Simulation.fastforward
fastforward(s, nsec) ==
    [s EXCEPT !.ffmode = TRUE,
              !.ffstop = IF nsec # None THEN Some(s.simt + nsec[1]) ELSE None]

\* Simulation.setFixdt
setFixdt(s, flag, nsec, t) ==
    IF flag THEN fastforward(s, nsec) ELSE start(s, t)

\* Simulation.benchmark (the fields of the object)
benchmark(s, dt) ==
    [s EXCEPT !.bencht = 0,
              !.benchdt = dt]

-----------------------------------------------------------------------------
(* Simulation.setclock. A text is a sequence of one-character strings.      *)

Digits == {"0", "1", "2", "3", "4", "5", "6", "7", "8", "9"}

\* int() of one decimal digit
DigitVal(c) ==
    CASE c = "0" -> 0 [] c = "1" -> 1 [] c = "2" -> 2 [] c = "3" -> 3
      [] c = "4" -> 4 [] c = "5" -> 5 [] c = "6" -> 6 [] c = "7" -> 7
      [] c = "8" -> 8 [] c = "9" -> 9

\* str.upper(), on the letters the texts of the model hold
UpperChar(c) ==
    CASE c = "r" -> "R" [] c = "u" -> "U" [] c = "n" -> "N" [] c = "e" -> "E"
      [] c = "a" -> "A" [] c = "l" -> "L" [] c = "t" -> "T" [] c = "c" -> "C"
      [] OTHER -> c

upper(txt) == [i \in 1..Len(txt) |-> UpperChar(txt[i])]

\* str.replace(c, ""): txt without its occurrences of the character c
RECURSIVE remove(_, _)
remove(txt, c) ==
    IF txt = <<>> THEN <<>>
    ELSE IF Head(txt) = c THEN remove(Tail(txt), c)
    ELSE <<Head(txt)>> \o remove(Tail(txt), c)

\* str.isdigit(): non-empty and all characters are digits
isdigit(txt) == txt # <<>> /\ \A i \in 1..Len(txt) : txt[i] \in Digits

\* int(txt) of a digit string, 0 for the empty one
RECURSIVE IntOf(_)
IntOf(txt) ==
    IF txt = <<>> THEN 0
    ELSE 10 * IntOf(SubSeq(txt, 1, Len(txt) - 1)) + DigitVal(txt[Len(txt)])

\* str.split(":")
RECURSIVE split(_)
split(txt) ==
    IF \A i \in 1..Len(txt) : txt[i] # ":" THEN <<txt>>
    ELSE LET k == CHOOSE i \in 1..Len(txt) :
                      txt[i] = ":" /\ \A j \in 1..(i - 1) : txt[j] # ":"
         IN  <<SubSeq(txt, 1, k - 1)>> \o split(SubSeq(txt, k + 1, Len(txt)))

\* tools.misc.txt2tim: HH[:MM[:SS]] to [ms] of day; a field that is no digit
\* string counts for nothing
txt2tim(txt) ==
    LET f == split(txt)
        field(i) == IF Len(f) >= i /\ isdigit(f[i]) THEN IntOf(f[i]) ELSE 0
    IN  1000 * (3600 * field(1) + 60 * field(2) + field(3))

\* Simulation.setclock: the object after the call. tod is the time of day
\* [ms] that time.localtime() / time.gmtime() gives.
setclock(s, txt, tod) ==
    IF txt = <<>> THEN s
    ELSE IF upper(txt) = <<"R", "U", "N">> THEN
        [s EXCEPT !.deltclock = 0, !.simtclock = s.simt]
    ELSE IF upper(txt) = <<"R", "E", "A", "L">> \/ upper(txt) = <<"U", "T", "C">> THEN
        [s EXCEPT !.simtclock = tod, !.deltclock = tod - s.simt]
    ELSE IF isdigit(remove(remove(txt, ":"), ".")) THEN
        [s EXCEPT !.simtclock = txt2tim(txt), !.deltclock = txt2tim(txt) - s.simt]
    ELSE s

\* Simulation.setclock: what the call returns, <<flag, message, time>>; the
\* message of a success is followed by tim2txt of the new simtclock
setclock_result(s, txt, tod) ==
    IF \/ txt = <<>>
       \/ upper(txt) \in {<<"R", "U", "N">>, <<"R", "E", "A", "L">>, <<"U", "T", "C">>}
       \/ isdigit(remove(remove(txt, ":"), "."))
    THEN <<TRUE, "Time is now ", setclock(s, txt, tod).simtclock>>
    ELSE <<FALSE, "Time syntax error", 0>>

-----------------------------------------------------------------------------
(* Inputs *)

\* dt of the DT command [ms]: a negative one, and one day
DtInputs == {-100, onedayinsec}

\* mult of the DTMULT command
MultInputs == {2, 3, -3}

\* nsec of fastforward / setFixdt [ms]
NsecInputs == {None, Some(50)}

\* <<flag, nsec>> of setFixdt
FixdtInputs == {<<FALSE, None>>, <<TRUE, None>>, <<TRUE, Some(50)>>}

\* dt of the BENCHMARK command [ms]
BenchInputs == {50}

\* scenarios: <<scentime, scencmd>>, time-tagged command lists
ScenInputs == { << <<0>>, <<"CRE">> >>, << <<0, 100>>, <<"CRE", "HOLD">> >> }

\* the scenario that stack.ic("IC") loads
ScenIC == << <<0>>, <<"CRE">> >>

\* answers of stack.openfile: True, or (False, message)
OpenResults == { <<TRUE>>, <<FALSE, "error">> }

\* texts of the TIME command that name a mode or a time of day
DayTexts ==
    { <<>>,
      <<"R", "U", "N">>,
      <<"r", "u", "n">>,
      <<"R", "E", "A", "L">>,
      <<"U", "T", "C">>,
      <<"1", "2", ":", "3", "0">> }

\* "25:99"
Txt2599 == <<"2", "5", ":", "9", "9">>

\* texts of the TIME command: also times that are no time of day, and texts
\* that are no time
ClockTexts == DayTexts \cup {Txt2599, <<"1", "2", ":", "x">>, <<"N", "O", "W">>}

\* time of day [ms] read by time.localtime() / time.gmtime()
TodInputs == {0, onedayinsec - 1000}

-----------------------------------------------------------------------------
(* The collaborators of the engine *)

\* nothing done yet in this iteration: start() calls made by the loop itself,
\* benchmark reports echoed, the sleep requested, commands processed, events
\* dispatched, the simt given to the pre-update hooks (kept until the
\* traffic update), the batch events that the last stack command sent to the
\* manager and the states sent by sendState(). Two entries outlive the
\* iteration: the state at the end of the previous iteration and the last
\* state that sendState() sent.
NoObs ==
    [starts |-> 0, echoes |-> 0, slept |-> None, cmds |-> 0, events |-> 0,
     preupd |-> None, sent |-> <<>>, notified |-> <<>>,
     endprev |-> None, lastsent |-> None]

\* an operation, its arguments and what it returned
Ret(o, a, v) == [op |-> o, args |-> a, val |-> v]

\* stack.reset(): no scenario data is left
NoScen == << <<>>, <<>> >>

\* stack.checkfile(simt): the commands due at simt leave the scenario data
RECURSIVE checkfile(_, _)
checkfile(sd, simt) ==
    IF sd[1] # <<>> /\ Head(sd[1]) <= simt
    THEN checkfile(<<Tail(sd[1]), Tail(sd[2])>>, simt)
    ELSE sd

\* HasWork, asking for traffic and pending commands
HasWork_both(n, sd) == n > 0 /\ Len(sd[1]) > 0

\* the test of doWork for leaving init: traffic, or pending commands
HasWork(n, sd) == n > 0 \/ Len(sd[1]) > 0

-----------------------------------------------------------------------------
(* Simulation.doWork: the steps of the simulation thread *)

\* doWork, line 69: the pacing cursor starts at the wall clock
DoWorkEnter ==
    /\ pc = "entry"
    /\ sim' = [sim EXCEPT !.syst = now]
    /\ pc' = "top"
    /\ UNCHANGED <<is_headless, ntraf, scendata, now, iter, obs, ret, pending>>
    /\ UNCHANGED guivars

\* doWork, lines 75-83: the loop test, the pre-update hooks and the screen
\* update; the work of the iteration takes WorkMs of wall-clock time
LoopTop ==
    /\ pc = "top"
    /\ sim.running
    /\ iter < MaxIter
    /\ iter' = iter + 1
    /\ obs' = [NoObs EXCEPT !.preupd = IF sim.state = op THEN Some(sim.simt) ELSE None,
                            !.endprev = obs.endprev,
                            !.lastsent = obs.lastsent]
    /\ now' = now + WorkMs
    /\ pc' = "init_check"
    /\ UNCHANGED <<sim, is_headless, ntraf, scendata, ret, pending>>
    /\ UNCHANGED guivars

\* doWork, line 75: the loop ends when running is false
LoopExit ==
    /\ pc = "top"
    /\ ~sim.running
    /\ pc' = "done"
    /\ UNCHANGED <<sim, is_headless, ntraf, scendata, now, iter, obs, ret, pending>>
    /\ UNCHANGED guivars

\* doWork, lines 86-91: the simulation starts as soon as there is traffic or
\* pending commands; a pending benchmark starts its fast-forward
InitCheck ==
    /\ pc = "init_check"
    /\ IF sim.state = init /\ HasWork(ntraf, scendata)
       THEN /\ sim' = LET s1 == start(sim, now)
                      IN  IF s1.benchdt > 0
                          THEN [fastforward(s1, Some(s1.benchdt)) EXCEPT !.bencht = now]
                          ELSE s1
            /\ obs' = [obs EXCEPT !.starts = @ + 1]
       ELSE UNCHANGED <<sim, obs>>
    /\ pc' = "checkfile"
    /\ UNCHANGED <<is_headless, ntraf, scendata, now, iter, ret, pending>>
    /\ UNCHANGED guivars

\* doWork, lines 93-94: scenario commands due at simt go to the stack
CheckFile ==
    /\ pc = "checkfile"
    /\ scendata' = IF sim.state = op THEN checkfile(scendata, sim.simt) ELSE scendata
    /\ pc' = "process"
    /\ UNCHANGED <<sim, is_headless, ntraf, now, iter, obs, ret, pending>>
    /\ UNCHANGED guivars

\* doWork, line 97: stack.process() returns
ProcessDone ==
    /\ pc = "process"
    /\ pc' = "update"
    /\ UNCHANGED <<sim, is_headless, ntraf, scendata, now, iter, obs, ret, pending>>
    /\ UNCHANGED guivars

\* TrafUpdate, advancing simt in every state but init
TrafUpdate_notinit ==
    /\ pc = "update"
    /\ sim' = LET s1 == IF sim.state # init
                        THEN [sim EXCEPT !.simt = @ + sim.simdt]
                        ELSE sim
              IN  [s1 EXCEPT !.simtclock = (s1.deltclock + s1.simt) % onedayinsec]
    /\ obs' = [obs EXCEPT !.preupd = None]
    /\ pc' = "events"
    /\ UNCHANGED <<is_headless, ntraf, scendata, now, iter, ret, pending>>
    /\ UNCHANGED guivars

\* doWork, lines 99-116: in op the traffic is updated and simt advances by
\* simdt; the clock is recomputed
TrafUpdate ==
    /\ pc = "update"
    /\ sim' = LET s1 == IF sim.state = op
                        THEN [sim EXCEPT !.simt = @ + sim.simdt]
                        ELSE sim
              IN  [s1 EXCEPT !.simtclock = (s1.deltclock + s1.simt) % onedayinsec]
    /\ obs' = [obs EXCEPT !.preupd = None]
    /\ pc' = "events"
    /\ UNCHANGED <<is_headless, ntraf, scendata, now, iter, ret, pending>>
    /\ UNCHANGED guivars

\* doWork, line 119: manager.processEvents() returns
EventsDone ==
    /\ pc = "events"
    /\ pc' = "pacing"
    /\ UNCHANGED <<sim, is_headless, ntraf, scendata, now, iter, obs, ret, pending>>
    /\ UNCHANGED guivars

\* Pacing, pacing against the wall clock in fast-time too
Pacing_always ==
    /\ pc = "pacing"
    /\ LET syst1 == sim.syst + sim.sysdt
           remainder == syst1 - now
       IN  /\ sim' = [sim EXCEPT !.syst = syst1]
           /\ IF remainder > 0
              THEN /\ now' = now + remainder
                   /\ obs' = [obs EXCEPT !.slept = Some(remainder)]
              ELSE UNCHANGED <<now, obs>>
    /\ pc' = "notify"
    /\ UNCHANGED <<is_headless, ntraf, scendata, iter, ret, pending>>
    /\ UNCHANGED guivars

\* doWork, lines 123-140: pace against the wall clock, or end a fast-time
\* section whose end time has passed
Pacing ==
    /\ pc = "pacing"
    /\ IF ~sim.ffmode \/ ~(sim.state = op)
       THEN LET syst1 == sim.syst + sim.sysdt
                remainder == syst1 - now
            IN  /\ sim' = [sim EXCEPT !.syst = syst1]
                /\ IF remainder > 0
                   THEN /\ now' = now + remainder
                        /\ obs' = [obs EXCEPT !.slept = Some(remainder)]
                   ELSE UNCHANGED <<now, obs>>
       ELSE IF sim.ffstop # None /\ sim.simt >= sim.ffstop[1]
       THEN IF sim.benchdt > 0
            THEN /\ sim' = pause([sim EXCEPT !.benchdt = -1])
                 /\ obs' = [obs EXCEPT !.echoes = @ + 1]
                 /\ UNCHANGED now
            ELSE /\ sim' = start(sim, now)
                 /\ obs' = [obs EXCEPT !.starts = @ + 1]
                 /\ UNCHANGED now
       ELSE UNCHANGED <<sim, now, obs>>
    /\ pc' = "notify"
    /\ UNCHANGED <<is_headless, ntraf, scendata, iter, ret, pending>>
    /\ UNCHANGED guivars

\* Notify, not recording the state it sent
Notify_norecord ==
    /\ pc = "notify"
    /\ IF Some(sim.state) # sim.prevstate
       THEN /\ sim' = sim
            /\ obs' = [obs EXCEPT !.notified = Append(@, sim.state),
                                  !.lastsent = Some(sim.state),
                                  !.endprev = Some(sim.state)]
       ELSE /\ sim' = sim
            /\ obs' = [obs EXCEPT !.endprev = Some(sim.state)]
    /\ pc' = "top"
    /\ UNCHANGED <<is_headless, ntraf, scendata, now, iter, ret, pending>>
    /\ UNCHANGED guivars

\* doWork, lines 143-145: inform main of a state change
Notify ==
    /\ pc = "notify"
    /\ IF Some(sim.state) # sim.prevstate
       THEN /\ sim' = [sim EXCEPT !.prevstate = Some(sim.state)]
            /\ obs' = [obs EXCEPT !.notified = Append(@, sim.state),
                                  !.lastsent = Some(sim.state),
                                  !.endprev = Some(sim.state)]
       ELSE /\ sim' = sim
            /\ obs' = [obs EXCEPT !.endprev = Some(sim.state)]
    /\ pc' = "top"
    /\ UNCHANGED <<is_headless, ntraf, scendata, now, iter, ret, pending>>
    /\ UNCHANGED guivars

-----------------------------------------------------------------------------
(* The stack commands that stack.process() runs on the simulation thread    *)
(* (doWork, line 97): each calls one method of the Simulation object.       *)

\* a stack command calling operation o with arguments a, which returns v
Called(o, a, v) ==
    /\ pc = "process"
    /\ obs.cmds < MaxCmds
    /\ obs' = [obs EXCEPT !.cmds = @ + 1, !.sent = <<>>]
    /\ ret' = Ret(o, a, v)
    /\ UNCHANGED <<is_headless, now, pc, iter, pending>>
    /\ UNCHANGED guivars

CmdStart ==
    /\ Called("start", <<>>, <<>>)
    /\ sim' = start(sim, now)
    /\ UNCHANGED <<ntraf, scendata>>

CmdPause ==
    /\ Called("pause", <<>>, <<>>)
    /\ sim' = pause(sim)
    /\ UNCHANGED <<ntraf, scendata>>

\* stop() reads the setting is_headless, which stays as it is for the run
CmdStop ==
    \E headless \in (IF is_headless = None THEN BOOLEAN ELSE {is_headless[1]}) :
        /\ pc = "process"
        /\ obs.cmds < MaxCmds
        /\ obs' = [obs EXCEPT !.cmds = @ + 1, !.sent = <<>>]
        /\ ret' = Ret("stop", <<>>, <<>>)
        /\ is_headless' = Some(headless)
        /\ sim' = stop(sim, headless)
        /\ UNCHANGED <<ntraf, scendata, now, pc, iter, pending>>
        /\ UNCHANGED guivars

\* reset() also resets the traffic and the stack
CmdReset ==
    /\ Called("reset", <<>>, <<>>)
    /\ sim' = reset(sim)
    /\ ntraf' = 0
    /\ scendata' = NoScen

CmdQuit ==
    /\ Called("quit", <<>>, <<>>)
    /\ sim' = quit(sim)
    /\ UNCHANGED <<ntraf, scendata>>

CmdSetDt ==
    \E dt \in DtInputs :
        /\ Called("setDt", <<dt>>, <<>>)
        /\ sim' = setDt(sim, dt)
        /\ UNCHANGED <<ntraf, scendata>>

CmdSetDtMultiplier ==
    \E mult \in MultInputs :
        /\ Called("setDtMultiplier", <<mult>>, <<>>)
        /\ sim' = setDtMultiplier(sim, mult)
        /\ UNCHANGED <<ntraf, scendata>>

CmdSetFixdt ==
    \E a \in FixdtInputs :
        /\ Called("setFixdt", a, <<>>)
        /\ sim' = setFixdt(sim, a[1], a[2], now)
        /\ UNCHANGED <<ntraf, scendata>>

CmdFastforward ==
    \E nsec \in NsecInputs :
        /\ Called("fastforward", <<nsec>>, <<>>)
        /\ sim' = fastforward(sim, nsec)
        /\ UNCHANGED <<ntraf, scendata>>

\* benchmark(): stack.ic(fname) loads the scenario IC into the stack
CmdBenchmark ==
    \E dt \in BenchInputs :
        /\ Called("benchmark", <<dt>>, <<>>)
        /\ sim' = benchmark(sim, dt)
        /\ scendata' = ScenIC
        /\ UNCHANGED ntraf

\* batch_sent, testing `if result:` (a non-empty tuple is true)
batch_sent_truthy(result, loaded) ==
    IF result # <<FALSE>> /\ result # <<>> THEN <<loaded>> ELSE <<>>

\* batch, lines 215-216: the BatchEvents sent to the manager when
\* stack.openfile answered result and the stack holds the scenario loaded
batch_sent(result, loaded) ==
    IF result = <<TRUE>> THEN <<loaded>> ELSE <<>>

\* batch(): stack.openfile(filename) answers result and, when it succeeds,
\* leaves the scenario sc of the file in the stack; the scenario data of the
\* stack is sent to the manager as a BatchEvent if result is True; the
\* simulation is reset and result returned
CmdBatch ==
    \E sc \in ScenInputs, result \in OpenResults :
        LET loaded == IF result = <<TRUE>> THEN sc ELSE scendata
        IN  /\ pc = "process"
            /\ obs.cmds < MaxCmds
            /\ obs' = [obs EXCEPT !.cmds = @ + 1,
                                  !.sent = batch_sent(result, loaded)]
            /\ ret' = Ret("batch", <<sc>>, result)
            /\ sim' = reset(sim)
            /\ ntraf' = 0
            /\ scendata' = NoScen
            /\ UNCHANGED <<is_headless, now, pc, iter, pending>>
            /\ UNCHANGED guivars

\* the TIME command with a text of the set texts
CmdSetclock(texts) ==
    \E txt \in texts, tod \in TodInputs :
        /\ Called("setclock", <<txt>>, setclock_result(sim, txt, tod))
        /\ sim' = setclock(sim, txt, tod)
        /\ UNCHANGED <<ntraf, scendata>>

\* a traffic command (CRE, DEL) changes the number of aircraft
CmdTraffic ==
    \E n \in {0, 1} \ {ntraf} :
        /\ Called("traf", <<n>>, <<>>)
        /\ ntraf' = n
        /\ UNCHANGED <<sim, scendata>>

-----------------------------------------------------------------------------
(* Simulation.event: the events that manager.processEvents() dispatches on  *)
(* the simulation thread (doWork, line 119).                                *)

\* event() is called with an event of kind o and returns v
Dispatched(o, a, v) ==
    /\ pc = "events"
    /\ obs.events < MaxEvents
    /\ obs' = [obs EXCEPT !.events = @ + 1]
    /\ ret' = Ret(o, a, v)
    /\ UNCHANGED <<is_headless, now, pc, iter, pending>>
    /\ UNCHANGED guivars

\* event, lines 224-227: a stack command text is added to the stack
EventStackText ==
    /\ Dispatched("event_stacktext", <<>>, <<TRUE>>)
    /\ UNCHANGED <<sim, ntraf, scendata>>

\* event, line 231: a batch event arrives; the simulation is reset
EventBatchReset ==
    \E sc \in ScenInputs :
        /\ pc = "events"
        /\ obs.events < MaxEvents
        /\ obs' = [obs EXCEPT !.events = @ + 1]
        /\ pending' = Some(sc)
        /\ sim' = reset(sim)
        /\ ntraf' = 0
        /\ scendata' = NoScen
        /\ pc' = "event_232"
        /\ UNCHANGED <<is_headless, now, iter, ret>>
        /\ UNCHANGED guivars

\* event, line 232: the scenario of the event is assigned to the stack
EventBatchInstall ==
    /\ pc = "event_232"
    /\ scendata' = pending[1]
    /\ pc' = "event_233"
    /\ UNCHANGED <<sim, is_headless, ntraf, now, iter, obs, ret, pending>>
    /\ UNCHANGED guivars

\* event, lines 233-234 and 242: the simulation starts; the event is processed
EventBatchStart ==
    /\ pc = "event_233"
    /\ sim' = start(sim, now)
    /\ ret' = Ret("event_batch", <<pending[1]>>, <<TRUE>>)
    /\ pending' = None
    /\ pc' = "events"
    /\ UNCHANGED <<is_headless, ntraf, scendata, now, iter, obs>>
    /\ UNCHANGED guivars

\* event, lines 235-237: quit; event_processed stays False
EventQuit ==
    /\ Dispatched("event_quit", <<>>, <<FALSE>>)
    /\ sim' = quit(sim)
    /\ UNCHANGED <<ntraf, scendata>>

\* event, lines 238-240: any other event goes to the screen, whose answer is
\* returned
EventOther ==
    \E handled \in BOOLEAN :
        /\ Dispatched("event_other", <<>>, <<handled>>)
        /\ UNCHANGED <<sim, ntraf, scendata>>

-----------------------------------------------------------------------------
(* guiio.nodeData: the mirrored display state of one simulation node.       *)
(* Buffers (numpy arrays) are sequences; the index i of the source is the    *)
(* position i + 1 of the sequence. Coordinates are numbers that single       *)
(* precision holds exactly.                                                  *)

\* what np.empty leaves in an element that is never assigned
uninit == -1

\* 4500 * ft, in decimetres
default_translvl == 13716

\* nodeData.__init__ / nodeData.clear_scen_data
NodeDataInit ==
    [ polynames     |-> <<>>,
      polydata      |-> <<>>,
      custwplbl     |-> <<>>,
      custwplat     |-> <<>>,
      custwplon     |-> <<>>,
      filteralt     |-> None,
      traillat0     |-> <<>>,
      traillon0     |-> <<>>,
      traillat1     |-> <<>>,
      traillon1     |-> <<>>,
      translvl      |-> default_translvl,
      show_map      |-> 1,
      show_coast    |-> 1,
      show_traf     |-> 1,
      show_pz       |-> 0,
      show_fir      |-> 1,
      show_lbl      |-> 2,
      show_wpt      |-> 1,
      show_apt      |-> 1,
      ssd_all       |-> FALSE,
      ssd_conflicts |-> FALSE,
      ssd_ownship   |-> {} ]

clear_scen_data(nd) == NodeDataInit

\* Python's `not x` of a flag, with False = 0 and True = 1
Not(x) == IF x = 0 THEN 1 ELSE 0

\* the indices (from 0) of the slice [from:to:step] of an array of n
\* elements, for from >= 0 and step > 0; a negative to counts from the end
SliceIdx(from, to, step, n) ==
    LET hi == IF to < 0 THEN (IF n + to < 0 THEN 0 ELSE n + to)
              ELSE (IF to > n THEN n ELSE to)
        cnt == IF hi > from THEN (hi - from + step - 1) \div step ELSE 0
    IN  [i \in 1..cnt |-> from + (i - 1) * step]

\* buf[idx] = vals, for an index sequence and as many values
Assign(buf, idx, vals) ==
    [p \in 1..Len(buf) |->
        IF \E i \in 1..Len(idx) : idx[i] + 1 = p
        THEN vals[CHOOSE i \in 1..Len(idx) : idx[i] + 1 = p]
        ELSE buf[p]]

\* data[from::2]
Every2nd(data, from) ==
    LET idx == SliceIdx(from, Len(data), 2, Len(data))
    IN  [i \in 1..Len(idx) |-> data[idx[i] + 1]]

\* newbuf, with a last segment that ends at the last point itself
newbuf_open(data) ==
    LET n  == 2 * Len(data)
        b0 == [p \in 1..n |-> uninit]
        b1 == Assign(b0, SliceIdx(0, n, 4, n), Every2nd(data, 0))
        b2 == Assign(b1, SliceIdx(1, n, 4, n), Every2nd(data, 1))
        b3 == Assign(b2, SliceIdx(2, -2, 4, n), Every2nd(data, 2))
        b4 == Assign(b3, SliceIdx(3, -3, 4, n), Every2nd(data, 3))
    IN  Assign(b4, <<n - 2, n - 1>>, SubSeq(data, Len(data) - 1, Len(data)))

\* update_poly_data, lines 70-75: the line segments of the polyline data
newbuf(data) ==
    LET n  == 2 * Len(data)
        b0 == [p \in 1..n |-> uninit]
        b1 == Assign(b0, SliceIdx(0, n, 4, n), Every2nd(data, 0))
        b2 == Assign(b1, SliceIdx(1, n, 4, n), Every2nd(data, 1))
        b3 == Assign(b2, SliceIdx(2, -2, 4, n), Every2nd(data, 2))
        b4 == Assign(b3, SliceIdx(3, -3, 4, n), Every2nd(data, 3))
    IN  Assign(b4, <<n - 2, n - 1>>, SubSeq(data, 1, 2))

\* list(range(*t)) for t = (a, b): the indices a, a + 1, ..., b - 1
range(t) == t[1]..(t[2] - 1)

\* np.delete(arr, obj): arr without the elements at the indices obj
RECURSIVE np_delete_from(_, _, _)
np_delete_from(arr, obj, i) ==
    IF arr = <<>> THEN <<>>
    ELSE (IF i \in obj THEN <<>> ELSE <<Head(arr)>>)
         \o np_delete_from(Tail(arr), obj, i + 1)

np_delete(arr, obj) == np_delete_from(arr, obj, 0)

\* f without the key k (del f[k])
Without(f, k) == [x \in (DOMAIN f) \ {k} |-> f[x]]

\* nodeData.update_poly_data, lines 61-65: a stored polygon is removed
remove_poly(nd, name) ==
    IF name \in DOMAIN nd.polynames
    THEN [nd EXCEPT !.polydata = np_delete(@, range(nd.polynames[name])),
                    !.polynames = Without(@, name)]
    ELSE nd

\* nodeData.update_poly_data; data is None or Some(points)
update_poly_data(nd, name, data) ==
    LET nd1 == remove_poly(nd, name)
    IN  IF data # None
        THEN [nd1 EXCEPT
                 !.polynames = (name :> <<Len(nd1.polydata), 2 * Len(data[1])>>) @@ @,
                 !.polydata = @ \o newbuf(data[1])]
        ELSE nd1

\* str.ljust(5): padded with spaces to 5 characters, never cut
ljust5(name) == name \o [i \in 1..(5 - Len(name)) |-> " "]

\* nodeData.defwpt
defwpt(nd, name, lat, lon) ==
    [nd EXCEPT !.custwplbl = @ \o ljust5(name),
               !.custwplat = Append(@, lat),
               !.custwplon = Append(@, lon)]

\* x in arg, for a list arg
In(x, arg) == \E i \in 1..Len(arg) : arg[i] = x

\* set(arg)
SetOf(arg) == {arg[i] : i \in 1..Len(arg)}

\* show_ssd, adding the ids of arg and removing none
show_ssd_union(nd, arg) ==
    IF In("ALL", arg) THEN
        [nd EXCEPT !.ssd_all = TRUE, !.ssd_conflicts = FALSE]
    ELSE IF In("CONFLICTS", arg) THEN
        [nd EXCEPT !.ssd_all = FALSE, !.ssd_conflicts = TRUE]
    ELSE IF In("OFF", arg) THEN
        [nd EXCEPT !.ssd_all = FALSE, !.ssd_conflicts = FALSE, !.ssd_ownship = {}]
    ELSE
        [nd EXCEPT !.ssd_ownship = nd.ssd_ownship \cup SetOf(arg)]

\* nodeData.show_ssd
show_ssd(nd, arg) ==
    IF In("ALL", arg) THEN
        [nd EXCEPT !.ssd_all = TRUE, !.ssd_conflicts = FALSE]
    ELSE IF In("CONFLICTS", arg) THEN
        [nd EXCEPT !.ssd_all = FALSE, !.ssd_conflicts = TRUE]
    ELSE IF In("OFF", arg) THEN
        [nd EXCEPT !.ssd_all = FALSE, !.ssd_conflicts = FALSE, !.ssd_ownship = {}]
    ELSE
        LET removed == nd.ssd_ownship \cap SetOf(arg)
        IN  [nd EXCEPT !.ssd_ownship = (nd.ssd_ownship \cup SetOf(arg)) \ removed]

\* nodeData.setflag; args of FILTERALT is <<on, low, high>>
setflag(nd, flag, args) ==
    CASE flag = "SYM" -> [nd EXCEPT !.show_pz = Not(@)]
      [] flag = "GEO" -> [nd EXCEPT !.show_coast = Not(@)]
      [] flag = "FIR" -> [nd EXCEPT !.show_fir = Not(@)]
      [] flag = "APT" -> [nd EXCEPT !.show_apt = Not(@)]
      [] flag \in {"VOR", "WPT", "WP", "NAV"} -> [nd EXCEPT !.show_wpt = Not(@)]
      [] flag = "SAT" -> [nd EXCEPT !.show_map = Not(@)]
      [] flag = "TRAF" -> [nd EXCEPT !.show_traf = Not(@)]
      [] flag = "SSD" -> show_ssd(nd, args)
      [] flag = "FILTERALT" ->
            [nd EXCEPT !.filteralt = IF args[1] THEN Some(Tail(args)) ELSE None]
      [] OTHER -> nd

-----------------------------------------------------------------------------
(* The engine *)

\* GuiClient.__init__
GuiIdle ==
    /\ act = ""
    /\ nodedata = <<>>
    /\ default_data = NodeDataInit
    /\ calls = <<>>
    /\ gret = Ret("init", <<>>, <<>>)
    /\ gops = 0
    /\ shadow = <<>>

\* the engine after construction, before doWork
SimIdle ==
    /\ sim = SimInit
    /\ is_headless = None
    /\ ntraf = 0
    /\ scendata = NoScen
    /\ now = StartTime
    /\ pc = "entry"
    /\ iter = 0
    /\ obs = NoObs
    /\ ret = Ret("init", <<>>, <<>>)
    /\ pending = None

Init == SimIdle /\ GuiIdle

\* The engine under the commands and events that drive its state machine
Next ==
    \/ DoWorkEnter \/ LoopTop \/ LoopExit \/ InitCheck \/ CheckFile
    \/ ProcessDone \/ TrafUpdate \/ EventsDone \/ Pacing \/ Notify
    \/ CmdStart \/ CmdPause \/ CmdStop \/ CmdReset \/ CmdQuit
    \/ CmdSetFixdt \/ CmdFastforward \/ CmdBenchmark \/ CmdBatch \/ CmdTraffic
    \/ EventStackText \/ EventBatchReset \/ EventBatchInstall
    \/ EventBatchStart \/ EventQuit \/ EventOther

Spec == Init /\ [][Next]_vars

\* The engine under the commands that set its clock and its timestep, with
\* clock texts that name a mode or a time of day
NextClock ==
    \/ DoWorkEnter \/ LoopTop \/ LoopExit \/ InitCheck \/ CheckFile
    \/ ProcessDone \/ TrafUpdate \/ EventsDone \/ Pacing \/ Notify
    \/ CmdStart \/ CmdPause \/ CmdReset \/ CmdQuit \/ CmdFastforward
    \/ CmdTraffic \/ CmdSetDt \/ CmdSetDtMultiplier \/ CmdSetclock(DayTexts)

SpecClock == Init /\ [][NextClock]_vars

\* The engine under the commands that set its timestep and its pacing
NextPace ==
    \/ DoWorkEnter \/ LoopTop \/ InitCheck \/ CheckFile
    \/ ProcessDone \/ TrafUpdate \/ EventsDone \/ Pacing \/ Notify
    \/ CmdStart \/ CmdPause \/ CmdReset \/ CmdFastforward
    \/ CmdSetDt \/ CmdSetDtMultiplier

SpecPace == Init /\ [][NextPace]_vars

\* The engine under the TIME command with any text
NextText ==
    \/ DoWorkEnter \/ LoopTop \/ LoopExit \/ InitCheck \/ CheckFile
    \/ ProcessDone \/ TrafUpdate \/ EventsDone \/ Pacing \/ Notify
    \/ CmdStart \/ CmdQuit \/ CmdTraffic \/ CmdSetclock(ClockTexts)

SpecText == Init /\ [][NextText]_vars

-----------------------------------------------------------------------------
(* guiio.GuiClient *)

Nodes == {"n1", "n2"}

UPDATE_ALL == <<"POLY", "TRAILS", "CUSTWPT">>

\* the call signal.emit(node, ..., what)
Emit(signal, node, what) == <<"emit", signal, node, what>>

\* the entry k -> v added to (or replaced in) the dict f
Put(f, k, v) == (k :> v) @@ f

\* self.nodedata.get(sender_id), or a new nodeData()
sender_data_of(sender_id) ==
    IF sender_id \in DOMAIN nodedata THEN nodedata[sender_id] ELSE NodeDataInit

\* the polygons a node has sent and not deleted, after one more event
shadow_after(name, data, sender_id) ==
    LET sh == IF sender_id \in DOMAIN shadow THEN shadow[sender_id] ELSE <<>>
    IN  Put(shadow, sender_id,
            CASE name = "RESET" -> <<>>
              [] name = "POLY" ->
                    IF data.data # None THEN Put(sh, data.name, data.data[1])
                    ELSE Without(sh, data.name)
              [] OTHER -> sh)

\* event, lines 150-162: what the event name with data makes of the
\* nodeData sender_data
event_on(sender_data, name, data) ==
    CASE name = "RESET" -> clear_scen_data(sender_data)
      [] name = "POLY" -> update_poly_data(sender_data, data.name, data.data)
      [] name = "DEFWPT" -> defwpt(sender_data, data.name, data.lat, data.lon)
      [] name = "DISPLAYFLAG" -> setflag(sender_data, data.flag, data.args)
      [] OTHER -> sender_data

\* event_nodedata, handling the event on the nodeData of every node
event_nodedata_all(nds, name, data, sender_id) ==
    [n \in DOMAIN nds \cup {sender_id} |->
        event_on(IF n \in DOMAIN nds THEN nds[n] ELSE NodeDataInit, name, data)]

\* event, lines 147-162: the dict nodedata after the event, when it was nds
event_nodedata(nds, name, data, sender_id) ==
    Put(nds, sender_id,
        event_on(IF sender_id \in DOMAIN nds THEN nds[sender_id] ELSE NodeDataInit,
                 name, data))

\* GuiClient.event
GuiEvent(name, data, sender_id) ==
        /\ nodedata' = event_nodedata(nodedata, name, data, sender_id)
        /\ calls' =
              CASE name = "RESET" -> <<Emit("actnodedata_changed", sender_id, UPDATE_ALL)>>
                [] name = "POLY" -> <<Emit("actnodedata_changed", sender_id, <<"POLY">>)>>
                [] name = "DEFWPT" -> <<Emit("actnodedata_changed", sender_id, <<"CUSTWPT">>)>>
                [] name = "DISPLAYFLAG" -> <<>>
                [] OTHER -> <<Emit("event_received", sender_id, <<name>>)>>
        /\ gret' = Ret("event", <<name, data, sender_id>>, <<>>)
        /\ shadow' = shadow_after(name, data, sender_id)
        /\ UNCHANGED <<act, default_data>>

\* actnode_calls, never unsubscribing
actnode_calls_nounsub(a, newact) ==
    << <<"subscribe", "ACDATA", newact>>,
       Emit("actnodedata_changed", newact, UPDATE_ALL) >>

\* the calls of actnode(newact) when a is the active node
actnode_calls(a, newact) ==
    (IF a # "" THEN << <<"unsubscribe", "ACDATA", a>> >> ELSE <<>>)
    \o << <<"subscribe", "ACDATA", newact>>,
          Emit("actnodedata_changed", newact, UPDATE_ALL) >>

\* GuiClient.actnode; newact is None or Some(node id)
actnode(newact) ==
    /\ act' = IF newact # None THEN newact[1] ELSE act
    /\ calls' = IF newact # None THEN actnode_calls(act, newact[1]) ELSE <<>>
    /\ gret' = Ret("actnode", <<newact>>, <<act'>>)
    /\ UNCHANGED <<nodedata, default_data, shadow>>

\* GuiClient.get_nodedata; nodeid is None or Some(node id)
get_nodedata(nodeid) ==
    LET n == IF nodeid # None THEN nodeid[1] ELSE act
    IN  /\ gret' = Ret("get_nodedata", <<nodeid>>,
                       <<IF n \in DOMAIN nodedata THEN nodedata[n] ELSE default_data>>)
        /\ calls' = <<>>
        /\ UNCHANGED <<act, nodedata, default_data, shadow>>

\* the node ids of all hosts, in the order of the loops of nodes_changed
RECURSIVE Flatten(_)
Flatten(lists) ==
    IF lists = <<>> THEN <<>> ELSE Head(lists) \o Flatten(Tail(lists))

\* GuiClient.nodes_changed; data is the sequence of data.values(). With no
\* active node and no node id in data, node_id is unbound at line 176.
nodes_changed(data) ==
    LET ids  == Flatten(data)
        new  == SetOf(ids) \ DOMAIN nodedata
        last == ids[Len(ids)]
    IN  /\ nodedata' = [n \in new |-> NodeDataInit] @@ nodedata
        /\ IF act # "" THEN
               /\ calls' = <<Emit("nodes_changed", "", <<>>)>>
               /\ gret' = Ret("nodes_changed", <<data>>, <<>>)
               /\ UNCHANGED act
           ELSE IF ids = <<>> THEN
               /\ calls' = <<Emit("nodes_changed", "", <<>>)>>
               /\ gret' = Ret("nodes_changed", <<data>>, <<"NameError">>)
               /\ UNCHANGED act
           ELSE
               /\ calls' = <<Emit("nodes_changed", "", <<>>)>> \o actnode_calls(act, last)
               /\ gret' = Ret("nodes_changed", <<data>>, <<>>)
               /\ act' = last
        /\ UNCHANGED <<default_data, shadow>>

-----------------------------------------------------------------------------
(* Inputs of the client *)

\* the flat list of P points lat1, lon1, ..., latP, lonP starting after base
Points(P, base) == [i \in 1..(2 * P) |-> base + i]

PolyNames == {"A", "B"}

\* data of a POLY event: a polygon's points, or None to delete it
PolyInputs ==
    {[name |-> nm, data |-> Some(Points(P, base))] :
        nm \in PolyNames, P \in 1..MaxPts, base \in {0, 10}}
    \cup {[name |-> nm, data |-> None] : nm \in PolyNames}

\* args of the SSD display flag
SsdInputs ==
    { <<"AB1">>, <<"AB1", "CD2">>, <<"ALL">>, <<"CONFLICTS">>, <<"OFF">>,
      <<"CD2", "OFF">> }

\* data of a DISPLAYFLAG event
FlagInputs ==
    {[flag |-> f, args |-> <<>>] : f \in {"SYM", "APT", "WPT", "XYZ"}}
    \cup {[flag |-> "SSD", args |-> a] : a \in SsdInputs}
    \cup {[flag |-> "FILTERALT", args |-> a] : a \in {<<TRUE, 10, 20>>, <<FALSE>>}}

\* data of a DEFWPT event
WptInputs == {[name |-> <<"W", "P", "1">>, lat |-> 52, lon |-> 4]}

\* hosts' node lists of a nodes_changed call
NodesInputs == { <<>>, << <<>> >>, << <<"n1">> >>, << <<"n1", "n2">>, <<>> >> }

-----------------------------------------------------------------------------
(* The client *)

InitGui == SimIdle /\ GuiIdle

\* the buffer of the sender has room for the polygon of the event
FitsBuf(data, sender_id) ==
    data.data # None =>
        Len(sender_data_of(sender_id).polydata) + 2 * Len(data.data[1]) <= MaxBuf

\* One node's polygons under POLY and RESET events
NextPoly ==
    /\ \/ \E d \in PolyInputs : FitsBuf(d, "n1") /\ GuiEvent("POLY", d, "n1")
       \/ GuiEvent("RESET", <<>>, "n1")
    /\ UNCHANGED gops
    /\ UNCHANGED simvars

SpecPoly == InitGui /\ [][NextPoly]_vars

\* The client under the events of two nodes, node updates and selections
NextGui ==
    /\ gops < MaxGuiOps
    /\ gops' = gops + 1
    /\ \/ \E n \in Nodes : actnode(Some(n))
       \/ actnode(None)
       \/ \E d \in NodesInputs : nodes_changed(d)
       \/ \E n \in Nodes : GuiEvent("RESET", <<>>, n)
       \/ \E n \in Nodes : GuiEvent("POLY", [name |-> "A", data |-> Some(Points(2, 0))], n)
       \/ \E n \in Nodes, d \in WptInputs : GuiEvent("DEFWPT", d, n)
       \/ \E n \in Nodes, d \in FlagInputs : GuiEvent("DISPLAYFLAG", d, n)
       \/ \E n \in Nodes : GuiEvent("ECHO", <<>>, n)
       \/ \E n \in Nodes : get_nodedata(Some(n))
       \/ get_nodedata(None)
    /\ UNCHANGED simvars

SpecGui == InitGui /\ [][NextGui]_vars

-----------------------------------------------------------------------------
(* Properties of the engine *)

\* this step is a stack command, the call ret' of a method of the engine
IsCommand == pc = "process" /\ pc' = "process"

\* this step is a stack command that calls start(), pause() or stop()
IsLifecycleCommand ==
    /\ IsCommand
    /\ \/ ret'.op \in {"start", "pause", "stop"}
       \/ ret'.op = "setFixdt" /\ ret'.args[1] = FALSE

\* this step is part of the handling of a batch event
IsBatchEvent == pc' = "event_232" \/ pc \in {"event_232", "event_233"}

\* C1: From init with no traffic and no scenario data, and without a call of
\* start(), pause() or stop() or a batch event, no step leaves init. The
\* iteration whose test for leaving init (doWork, line 87) finds traffic or
\* scenario data goes to op in that step, by exactly one call of start();
\* when the test fails, the step calls no start() and keeps the state.
C1_InitUntilWork ==
    [][ /\ ( /\ sim.state = init
             /\ ntraf = 0
             /\ Len(scendata[1]) = 0
             /\ ~IsLifecycleCommand
             /\ ~IsBatchEvent )
           => sim'.state = init
        /\ ( /\ pc = "init_check"
             /\ sim.state = init
             /\ (ntraf > 0 \/ Len(scendata[1]) > 0) )
           => (sim'.state = op /\ obs.starts = 0 /\ obs'.starts = 1)
        /\ ( /\ pc = "init_check"
             /\ ~(sim.state = init /\ (ntraf > 0 \/ Len(scendata[1]) > 0)) )
           => (sim'.state = sim.state /\ obs'.starts = obs.starts)
      ]_vars

\* C1 witness: the second iteration has left init by one start(), after a
\* first iteration that stayed in init and whose only call created traffic
C1_Witness ==
    /\ pc = "checkfile"
    /\ iter = 2
    /\ sim.state = op
    /\ sim.prevstate = Some(init)
    /\ obs.starts = 1
    /\ ntraf > 0
    /\ ret.op = "traf"

\* C2: simtclock is a time of day in every state: 0 <= simtclock < 86400 s
C2_ClockInDay == 0 <= sim.simtclock /\ sim.simtclock < onedayinsec

\* this step is the pacing step of an iteration that runs in fast-time
IsFastPacing == pc = "pacing" /\ sim.ffmode /\ sim.state = op

\* the end time of the fast-time section of s has passed
DeadlinePassed(s) == s.ffstop # None /\ s.simt >= s.ffstop[1]

\* C3: fastforward(n) at simt = t sets ffmode with ffstop = t + n. The pacing
\* step of an iteration in fast-time and op neither advances syst nor
\* sleeps. When ffstop is set and simt >= ffstop, it goes back to real time
\* by start() (ffmode off, op, syst set to the wall clock) if benchdt <= 0,
\* and if benchdt > 0 it echoes the benchmark result once, sets benchdt = -1
\* and goes to hold; otherwise it changes nothing. So after the pacing step
\* of any iteration it is never the case that ffmode is on in op with ffstop
\* set and simt >= ffstop.
C3_FastForwardDeadline ==
    [][ /\ (IsCommand /\ ret'.op = "fastforward" /\ ret'.args[1] # None)
           => ( /\ sim'.ffmode
                /\ sim'.ffstop = Some(sim.simt + ret'.args[1][1]) )
        /\ IsFastPacing
           => ( /\ now' = now
                /\ obs'.slept = None
                /\ (~DeadlinePassed(sim) \/ sim.benchdt > 0) => sim'.syst = sim.syst )
        /\ (IsFastPacing /\ DeadlinePassed(sim) /\ sim.benchdt <= 0)
           => ( /\ sim' = [sim EXCEPT !.ffmode = FALSE, !.syst = now]
                /\ sim'.state = op
                /\ obs'.starts = obs.starts + 1
                /\ obs'.echoes = obs.echoes )
        /\ (IsFastPacing /\ DeadlinePassed(sim) /\ sim.benchdt > 0)
           => ( /\ sim' = [sim EXCEPT !.benchdt = -1, !.state = hold]
                /\ obs'.echoes = 1
                /\ obs'.starts = obs.starts )
        /\ (IsFastPacing /\ ~DeadlinePassed(sim))
           => (sim' = sim /\ obs' = obs)
        /\ pc' \in {"notify", "top"}
           => ~(sim'.ffmode /\ sim'.state = op /\ DeadlinePassed(sim'))
      ]_vars

\* C3 witness: fastforward(50 ms) was called at simt = 0, the deadline 50
\* was reached in fast-time, and the pacing step went back to real time
C3_Witness ==
    /\ pc = "notify"
    /\ ret = Ret("fastforward", <<Some(50)>>, <<>>)
    /\ sim.ffstop = Some(50)
    /\ sim.simt = 50
    /\ sim.state = op
    /\ ~sim.ffmode
    /\ sim.syst = now
    /\ obs.starts = 1
    /\ obs.slept = None

\* the benchmark case of C3: the fast-time section of a benchmark ended in
\* hold with one report
C3_WitnessBenchmark ==
    /\ pc = "notify"
    /\ ret.op = "benchmark"
    /\ sim.state = hold
    /\ sim.ffmode
    /\ sim.benchdt = -1
    /\ obs.echoes = 1
    /\ obs.starts = 1

\* C4: event() handles a batch event by reset(), then the assignment of the
\* event's scenario to the stack, then start(): the state is init after the
\* reset and until start(), and when the handler returns the state is op,
\* simt = 0, deltclock = 0, ffmode is off, the stack holds exactly the
\* event's scenario, and the handler returns True.
C4_BatchEvent ==
    [][ /\ pc' \in {"event_232", "event_233"}
           => (sim'.state = init /\ pending' # None)
        /\ pc' = "event_232"
           => (scendata' = NoScen /\ sim'.simt = 0 /\ ~sim'.ffmode)
        /\ pc = "event_233"
           => ( /\ pc' = "events"
                /\ sim'.state = op
                /\ sim'.simt = 0
                /\ sim'.deltclock = 0
                /\ ~sim'.ffmode
                /\ scendata' = pending[1]
                /\ scendata' \in ScenInputs
                /\ ret' = Ret("event_batch", <<pending[1]>>, <<TRUE>>) )
      ]_vars

\* C4 witness: a batch event was handled that arrived in op, after a
\* fastforward, with simt > 0 behind it
C4_Witness ==
    /\ pc = "events"
    /\ ret = Ret("event_batch", << << <<0, 100>>, <<"CRE", "HOLD">> >> >>, <<TRUE>>)
    /\ scendata = << <<0, 100>>, <<"CRE", "HOLD">> >>
    /\ sim.state = op
    /\ sim.prevstate = Some(op)
    /\ sim.ffstop # None
    /\ sim.simt = 0
    /\ iter = 2

\* C8: once the state is end, no step changes it
C8_EndTerminal == [][sim.state = end => sim'.state = end]_vars

\* C9: setclock("25:99") returns (False, "Time syntax error") and leaves
\* simtclock and deltclock as they were
C9_Rejects2599 ==
    [][ (IsCommand /\ ret'.op = "setclock" /\ ret'.args[1] = Txt2599)
        => ( /\ ret'.val[1] = FALSE
             /\ ret'.val[2] = "Time syntax error"
             /\ sim'.simtclock = sim.simtclock
             /\ sim'.deltclock = sim.deltclock )
      ]_vars

\* this step is the call of event() for an event that is not a batch event
IsEvent == pc = "events" /\ pc' = "events" /\ obs'.events = obs.events + 1

\* this step is a call of quit(), by a stack command or by a quit event
IsQuit == (IsCommand /\ ret'.op = "quit") \/ (IsEvent /\ ret'.op = "event_quit")

\* the steps of doWork that follow stack.process() in an iteration, and the
\* return of doWork
StepsAfterProcess ==
    \/ ProcessDone \/ TrafUpdate \/ EventsDone \/ EventBatchInstall
    \/ EventBatchStart \/ Pacing \/ Notify \/ LoopExit

\* C11: quit(), called by a stack command or for a quit event, clears running
\* and changes nothing else; running never goes from false back to true;
\* while running is false the steps of the current iteration still run (a
\* step of doWork is enabled until doWork has returned, and in op the
\* traffic update still advances simt by simdt), no iteration begins, and at
\* the loop test doWork returns.
C11_QuitCooperative ==
    /\ [](( ~sim.running /\ pc \notin {"entry", "done"}) => ENABLED StepsAfterProcess)
    /\ [][ /\ IsQuit => (sim' = [sim EXCEPT !.running = FALSE] /\ pc' = pc)
           /\ ~sim.running => (~sim'.running /\ iter' = iter)
           /\ (~sim.running /\ pc = "top") => pc' = "done"
           /\ (~sim.running /\ pc = "update" /\ sim.state = op)
                 => sim'.simt = sim.simt + sim.simdt
           /\ pc' = "done" => (pc = "top" /\ ~sim.running)
         ]_vars

\* C11 witness: doWork has returned after a quit() in its second iteration,
\* which still advanced the traffic, slept and sent the state
C11_Witness ==
    /\ pc = "done"
    /\ ret.op = "quit"
    /\ iter = 2
    /\ ~sim.running
    /\ sim.state = op
    /\ sim.simt = 2 * default_simdt
    /\ obs.slept # None
    /\ sim.prevstate = Some(op)

\* C12: batch(filename) sends a BatchEvent to the manager if and only if
\* the result of the scenario load is exactly True, and the event carries the
\* scenario loaded; after either result the simulation is reset (state init,
\* simt = 0, deltclock = 0, ffmode off, no traffic, empty stack) and the
\* result of the load is returned.
C12_Batch ==
    [][ (IsCommand /\ ret'.op = "batch")
        => ( /\ (obs'.sent # <<>>) <=> (ret'.val = <<TRUE>>)
             /\ ret'.val = <<TRUE>> => obs'.sent = <<ret'.args[1]>>
             /\ ret'.val \in OpenResults
             /\ sim'.state = init
             /\ sim'.simt = 0
             /\ sim'.deltclock = 0
             /\ ~sim'.ffmode
             /\ ntraf' = 0
             /\ scendata' = NoScen )
      ]_vars

\* C12 witness: a scenario was loaded and sent in op, with simt > 0 behind
\* it, and the simulation is reset
C12_Witness ==
    /\ pc = "process"
    /\ iter = 2
    /\ ret = Ret("batch", << << <<0, 100>>, <<"CRE", "HOLD">> >> >>, <<TRUE>>)
    /\ obs.sent = << << <<0, 100>>, <<"CRE", "HOLD">> >> >>
    /\ sim.prevstate = Some(op)
    /\ sim.state = init
    /\ sim.simt = 0

\* the failure case of C12: the load failed in op; nothing was sent and the
\* simulation is reset
C12_WitnessFailed ==
    /\ pc = "process"
    /\ iter = 2
    /\ ret.op = "batch"
    /\ ret.val = <<FALSE, "error">>
    /\ obs.sent = <<>>
    /\ sim.prevstate = Some(op)
    /\ sim.state = init
    /\ sim.simt = 0

\* the last stack command of this iteration called o, and the traffic
\* update of the iteration is the next step
AtUpdateAfter(o) == pc = "update" /\ obs.cmds > 0 /\ ret.op = o

\* what C15 says of quit() and of the end of the loop: the traffic update
\* acts on the state alone, whether running is set or not, and doWork
\* returns only at the loop test
C15_LoopEnd ==
    /\ pc = "update"
          => sim'.simt = IF sim.state = op THEN sim.simt + sim.simdt ELSE sim.simt
    /\ pc' = "done" => pc = "top"
    /\ pc' = "init_check" => (pc = "top" /\ sim.running)

\* C15 as claimed: a stop() or quit() called by a stack command does not
\* change what the remaining steps of the iteration do: after either call,
\* an iteration that began in op still updates the traffic and advances simt
\* by simdt; doWork returns only at the loop test.
C15_AsClaimed ==
    [][ /\ C15_LoopEnd
        /\ ( /\ obs.preupd # None
             /\ AtUpdateAfter("stop") \/ AtUpdateAfter("quit") )
           => sim'.simt = sim.simt + sim.simdt
      ]_vars

\* C15 amended: quit() does not change what the remaining steps of the
\* iteration do, and the loop ends only at the loop test, also when stop()
\* cleared running on a headless host; but stop() sets the state to end at
\* once: after a stop() in stack.process() the traffic update of that
\* iteration is skipped and simt does not advance, also in an iteration that
\* began in op.
C15_Cancellation ==
    [][ /\ C15_LoopEnd
        /\ (IsCommand /\ ret'.op = "stop")
           => ( /\ is_headless' # None
                /\ sim' = [sim EXCEPT !.state = end,
                                      !.running = IF is_headless'[1] THEN FALSE ELSE @]
                /\ pc' = pc )
        /\ (obs.preupd # None /\ AtUpdateAfter("quit") /\ obs.cmds = 1)
           => sim'.simt = sim.simt + sim.simdt
        /\ AtUpdateAfter("stop")
           => (sim.state = end /\ sim'.simt = sim.simt)
      ]_vars

\* C15 witness: the second iteration began in op and was stopped on a
\* headless host by a stack command; its traffic update did not advance simt
C15_Witness ==
    /\ pc = "events"
    /\ iter = 2
    /\ ret.op = "stop"
    /\ obs.cmds = 1
    /\ is_headless = Some(TRUE)
    /\ ~sim.running
    /\ sim.prevstate = Some(op)
    /\ sim.state = end
    /\ sim.simt = default_simdt

\* this step is a call of reset(): by the RESET command, by batch(), or for
\* a batch event
IsReset == (IsCommand /\ ret'.op \in {"reset", "batch"}) \/ pc' = "event_232"

\* C16: the traffic update of an iteration advances simt by exactly simdt
\* when the state is op and leaves it when the state is init, hold or end;
\* every other step leaves simt or is a reset(), which sets it to 0; so simt
\* decreases only by a reset().
C16_SimtSteps ==
    [][ /\ pc = "update"
           => sim'.simt = IF sim.state = op THEN sim.simt + sim.simdt ELSE sim.simt
        /\ IsReset => sim'.simt = 0
        /\ (pc # "update" /\ ~IsReset) => sim'.simt = sim.simt
        /\ sim'.simt < sim.simt => IsReset
      ]_vars

\* C16 witness: simt advanced in op in the first iteration and stayed in the
\* third, whose traffic update found the state hold
C16_Witness ==
    /\ pc = "events"
    /\ iter = 3
    /\ ret.op = "pause"
    /\ sim.state = hold
    /\ sim.prevstate = Some(hold)
    /\ sim.simt = default_simdt

\* C20: whenever the traffic update of an iteration finds the state op, and
\* so advances the traffic, the pre-update hooks of plugin and datalog were
\* called at the top of this iteration with the simt the update starts from.
C20_PreUpdateBeforeStep ==
    (pc = "update" /\ sim.state = op) => obs.preupd = Some(sim.simt)

\* C17: the last step of every iteration leaves prevstate = state; it sends
\* the state, once, if and only if the state differs from the state at the
\* end of the previous iteration, and always in the first iteration; the
\* state sent is never the state sent last before, and at the end of every
\* iteration the state sent last is the current state.
C17_StateNotification ==
    [][ pc = "notify"
        => ( /\ pc' = "top"
             /\ sim'.prevstate = Some(sim'.state)
             /\ sim'.state = sim.state
             /\ (obs'.notified # <<>>) <=> (obs.endprev # Some(sim.state))
             /\ obs'.notified \in {<<>>, <<sim.state>>}
             /\ iter = 1 => obs'.notified = <<sim.state>>
             /\ obs'.notified # <<>> => obs.lastsent # Some(sim.state)
             /\ obs'.lastsent = Some(sim.state) )
      ]_vars

\* C17 witness: the third iteration ended in op as the second had, and sent
\* no state
C17_Witness ==
    /\ pc = "top"
    /\ iter = 3
    /\ sim.state = op
    /\ sim.prevstate = Some(op)
    /\ obs.notified = <<>>
    /\ obs.lastsent = Some(op)
    /\ sim.simt = 2 * default_simdt

-----------------------------------------------------------------------------
(* Properties of the client *)

\* the closed loop of line segments of the points pts = lat1, lon1, ...:
\* segment k goes from point k to point (k + 1) mod P
Segments(pts) ==
    LET P == Len(pts) \div 2
    IN  [j \in 1..(4 * P) |->
            LET k == (j - 1) \div 4
                r == (j - 1) % 4
            IN  IF r < 2 THEN pts[2 * k + r + 1]
                ELSE pts[2 * ((k + 1) % P) + (r - 2) + 1]]

\* the polygons that node n has sent and not deleted
ShadowOf(n) == IF n \in DOMAIN shadow THEN shadow[n] ELSE <<>>

\* the sum of the recorded lengths of the polygons names of nd
RECURSIVE SumLen(_, _)
SumLen(nd, names) ==
    IF names = {} THEN 0
    ELSE LET nm == CHOOSE x \in names : TRUE
         IN  nd.polynames[nm][2] + SumLen(nd, names \ {nm})

\* C5: the polygon buffer of every node is the concatenation of the segment
\* buffers of its mapped polygons: the mapped names are the polygons sent
\* and not deleted, each recorded (offset, length) lies in the buffer and
\* designates the segments of that polygon, the ranges do not overlap, and
\* the buffer holds nothing else.
C5_PolyBufferConsistent ==
    \A n \in DOMAIN nodedata :
        LET nd == nodedata[n]
            sh == ShadowOf(n)
        IN  /\ DOMAIN nd.polynames = DOMAIN sh
            /\ \A nm \in DOMAIN nd.polynames :
                  LET off == nd.polynames[nm][1]
                      len == nd.polynames[nm][2]
                  IN  /\ off + len <= Len(nd.polydata)
                      /\ SubSeq(nd.polydata, off + 1, off + len) = Segments(sh[nm])
            /\ \A a, b \in DOMAIN nd.polynames :
                  a # b =>
                     \/ nd.polynames[a][1] + nd.polynames[a][2] <= nd.polynames[b][1]
                     \/ nd.polynames[b][1] + nd.polynames[b][2] <= nd.polynames[a][1]
            /\ Len(nd.polydata) = SumLen(nd, DOMAIN nd.polynames)

\* this step is the event name of GuiClient.event
IsGuiEvent(name) == gret'.op = "event" /\ gret'.args[1] = name

\* C6: update_poly_data(name, points) for a name not stored and 2P values
\* (P >= 1) appends exactly the 4P values of the closed loop of segments
\* (entries 4k, 4k+1 point k; 4k+2, 4k+3 point (k+1) mod P) and maps the name
\* to (previous buffer length, 4P); for 1,2,3,4,5,6 the values appended are
\* 1,2,3,4, 3,4,5,6, 5,6,1,2.
C6_PolySegments ==
    [][ ( /\ IsGuiEvent("POLY")
          /\ gret'.args[2].data # None
          /\ gret'.args[2].name \notin DOMAIN sender_data_of(gret'.args[3]).polynames )
        => LET nm  == gret'.args[2].name
               pts == gret'.args[2].data[1]
               P   == Len(pts) \div 2
               old == sender_data_of(gret'.args[3])
               new == nodedata'[gret'.args[3]]
           IN  /\ Len(new.polydata) = Len(old.polydata) + 4 * P
               /\ new.polydata = old.polydata \o Segments(pts)
               /\ new.polynames = (nm :> <<Len(old.polydata), 4 * P>>) @@ old.polynames
               /\ pts = <<1, 2, 3, 4, 5, 6>>
                  => SubSeq(new.polydata, Len(old.polydata) + 1, Len(new.polydata))
                        = <<1, 2, 3, 4, 3, 4, 5, 6, 5, 6, 1, 2>>
      ]_vars

\* C6 witness: polygon B of one point was added behind polygon A of the
\* points 1,2,3,4,5,6
C6_Witness ==
    /\ gret = Ret("event", <<"POLY", [name |-> "B", data |-> Some(<<11, 12>>)], "n1">>, <<>>)
    /\ nodedata["n1"].polydata =
          <<1, 2, 3, 4, 3, 4, 5, 6, 5, 6, 1, 2, 11, 12, 11, 12>>
    /\ nodedata["n1"].polynames = ("A" :> <<0, 12>>) @@ ("B" :> <<12, 4>>)

\* the number of calls c among cs
CountCalls(cs, c) == Cardinality({i \in 1..Len(cs) : cs[i] = c})

\* the number of subscribe and unsubscribe calls among cs
CountSubs(cs) ==
    Cardinality({i \in 1..Len(cs) : cs[i][1] \in {"subscribe", "unsubscribe"}})

\* this step is actnode(n) for a node id n
IsActnode(n) == gret'.op = "actnode" /\ gret'.args[1] = Some(n)

\* what C7 says of every call but the one that selects the active node again
C7_Switch ==
    /\ \A n \in Nodes :
          (IsActnode(n) /\ act # "" /\ act # n)
          => ( /\ CountCalls(calls', <<"unsubscribe", "ACDATA", act>>) = 1
               /\ CountCalls(calls', <<"subscribe", "ACDATA", n>>) = 1
               /\ CountSubs(calls') = 2
               /\ act' = n
               /\ gret'.val = <<n>> )
    /\ (gret'.op = "actnode" /\ gret'.args[1] = None)
          => ( /\ calls' = <<>>
               /\ act' = act
               /\ nodedata' = nodedata
               /\ gret'.val = <<act>> )

\* C7 as claimed: actnode(B) with A # B active unsubscribes ACDATA from A
\* and subscribes it to B once, makes B active and returns B; actnode(A)
\* with A active issues no unsubscribe and no subscribe and returns A;
\* actnode() changes nothing and returns the active id.
C7_AsClaimed ==
    [][ /\ C7_Switch
        /\ \A n \in Nodes :
              (IsActnode(n) /\ act = n)
              => (CountSubs(calls') = 0 /\ act' = n /\ gret'.val = <<n>>)
      ]_vars

\* C7 amended: as claimed, but actnode(A) with A active unsubscribes ACDATA
\* from A once and then subscribes it to A once; the active node stays A and
\* A is returned.
C7_Actnode ==
    [][ /\ C7_Switch
        /\ \A n \in Nodes :
              (IsActnode(n) /\ act = n)
              => ( /\ calls' = << <<"unsubscribe", "ACDATA", n>>,
                                  <<"subscribe", "ACDATA", n>>,
                                  Emit("actnodedata_changed", n, UPDATE_ALL) >>
                   /\ act' = n
                   /\ nodedata' = nodedata
                   /\ gret'.val = <<n>> )
      ]_vars

\* C7 witness: n1, already active, was selected again
C7_Witness ==
    /\ gret = Ret("actnode", <<Some("n1")>>, <<"n1">>)
    /\ act = "n1"
    /\ gops = 2
    /\ calls[1] = <<"unsubscribe", "ACDATA", "n1">>
    /\ calls[2] = <<"subscribe", "ACDATA", "n1">>

\* the ids that are in exactly one of the sets a and b
SymDiff(a, b) == (a \ b) \cup (b \ a)

\* C10: show_ssd(args) with none of ALL, CONFLICTS, OFF in args replaces
\* ssd_ownship by its symmetric difference with the ids of args and leaves
\* ssd_all and ssd_conflicts as they are; from {AB1}, the args AB1, CD2 give
\* {CD2}; the same args once more give the first set back.
C10_SsdToggle ==
    [][ ( /\ IsGuiEvent("DISPLAYFLAG")
          /\ gret'.args[2].flag = "SSD"
          /\ SetOf(gret'.args[2].args) \cap {"ALL", "CONFLICTS", "OFF"} = {} )
        => LET args == gret'.args[2].args
               old  == sender_data_of(gret'.args[3])
               new  == nodedata'[gret'.args[3]]
           IN  /\ new.ssd_ownship = SymDiff(old.ssd_ownship, SetOf(args))
               /\ new.ssd_all = old.ssd_all
               /\ new.ssd_conflicts = old.ssd_conflicts
               /\ (old.ssd_ownship = {"AB1"} /\ args = <<"AB1", "CD2">>)
                  => new.ssd_ownship = {"CD2"}
               /\ show_ssd(new, args).ssd_ownship = old.ssd_ownship
      ]_vars

\* C10 witness: the ownship set {CD2}, which the args AB1, CD2 make of {AB1}
C10_Witness ==
    /\ gret.op = "event"
    /\ gret.args[1] = "DISPLAYFLAG"
    /\ gret.args[2] = [flag |-> "SSD", args |-> <<"AB1", "CD2">>]
    /\ nodedata[gret.args[3]].ssd_ownship = {"CD2"}

\* C13: nodes_changed(data) completes for every data, also with no host or
\* with hosts that list no node: every node id listed has a nodeData, the
\* entries that existed are kept, the signal nodes_changed is emitted, and
\* the last node id listed becomes the active node, subscribed to ACDATA,
\* only if there was no active node; an active node stays.
C13_NodesChanged ==
    [][ gret'.op = "nodes_changed"
        => LET ids == Flatten(gret'.args[1])
           IN  /\ gret'.val = <<>>
               /\ SetOf(ids) \subseteq DOMAIN nodedata'
               /\ \A n \in DOMAIN nodedata :
                     n \in DOMAIN nodedata' /\ nodedata'[n] = nodedata[n]
               /\ CountCalls(calls', Emit("nodes_changed", "", <<>>)) = 1
               /\ act # "" => (act' = act /\ CountSubs(calls') = 0)
               /\ (act = "" /\ ids # <<>>)
                     => ( /\ act' = ids[Len(ids)]
                          /\ CountCalls(calls', <<"subscribe", "ACDATA", act'>>) = 1 )
               /\ (act = "" /\ ids = <<>>) => act' = ""
      ]_vars

-----------------------------------------------------------------------------
(* Properties of the timestep and of the pacing *)

\* what C14 says of simdt and dtmult: setDt(dt) sets simdt = |dt| and keeps
\* dtmult, setDtMultiplier(mult) sets dtmult = mult and keeps simdt, and
\* setDt(-0.1 s) yields simdt = 0.1 s
C14_Fields ==
    /\ (IsCommand /\ ret'.op = "setDt")
          => ( /\ sim'.simdt = Abs(ret'.args[1])
               /\ sim'.simdt >= 0
               /\ sim'.dtmult = sim.dtmult
               /\ ret'.args[1] = -100 => sim'.simdt = 100 )
    /\ (IsCommand /\ ret'.op = "setDtMultiplier")
          => ( /\ sim'.dtmult = ret'.args[1]
               /\ sim'.simdt = sim.simdt )

\* C14 as claimed: after every setDt(dt) and setDtMultiplier(mult), simdt is
\* |dt| of the last setDt and sysdt is simdt / dtmult * 1000 ms for the
\* current simdt and dtmult (here, with both times in ms:
\* sysdt * dtmult = simdt).
C14_AsClaimed ==
    [][ /\ C14_Fields
        /\ (IsCommand /\ ret'.op \in {"setDt", "setDtMultiplier"})
              => sim'.sysdt * sim'.dtmult = sim'.simdt
      ]_vars

\* C14 amended: as claimed, but sysdt is simdt / dtmult * 1000 ms cut to an
\* integer toward zero: sysdt has the sign of dtmult (or is 0) and
\* |sysdt| * |dtmult| <= simdt < (|sysdt| + 1) * |dtmult|; it is recomputed
\* from the current simdt and dtmult by both calls.
C14_Timestep ==
    [][ /\ C14_Fields
        /\ (IsCommand /\ ret'.op \in {"setDt", "setDtMultiplier"})
              => ( /\ Abs(sim'.sysdt) * Abs(sim'.dtmult) <= sim'.simdt
                   /\ sim'.simdt < (Abs(sim'.sysdt) + 1) * Abs(sim'.dtmult)
                   /\ sim'.sysdt * sim'.dtmult >= 0 )
      ]_vars

\* C14 witness: setDtMultiplier(3) after setDt(-0.1 s): sysdt is 33 ms
C14_Witness ==
    /\ pc = "process"
    /\ ret = Ret("setDtMultiplier", <<3>>, <<>>)
    /\ sim.simdt = 100
    /\ sim.dtmult = 3
    /\ sim.sysdt = 33

\* C18: the wall clock never goes back; the pacing step requests a sleep
\* only of a time > 0, which with sysdt >= 0 is at most sysdt, and the wall
\* clock has advanced by it when the step ends; in fast-time in op the step
\* requests no sleep.
C18_SleepBound ==
    [][ /\ now' >= now
        /\ pc = "pacing"
           => ( /\ obs.slept = None
                /\ obs'.slept # None
                      => ( /\ obs'.slept[1] > 0
                           /\ sim.sysdt >= 0 => obs'.slept[1] <= sim.sysdt
                           /\ now' = now + obs'.slept[1] )
                /\ obs'.slept = None => now' = now
                /\ (sim.ffmode /\ sim.state = op) => obs'.slept = None )
        /\ pc # "pacing" => obs'.slept \in {obs.slept, None}
      ]_vars

\* C18 witness: after a paced iteration and one in fast-time, the third
\* iteration, in hold, slept for less than the rest of its budget
C18_Witness ==
    /\ pc = "notify"
    /\ iter = 3
    /\ sim.state = hold
    /\ sim.ffmode
    /\ sim.sysdt = default_simdt
    /\ obs.slept = Some(default_simdt - 2 * WorkMs)

-----------------------------------------------------------------------------
(* Properties of the mirror *)

\* one event of every name that GuiClient.event tells apart
EventKinds ==
    { <<"RESET", <<>> >>,
      <<"POLY", [name |-> "A", data |-> Some(Points(2, 0))]>>,
      <<"POLY", [name |-> "A", data |-> None]>>,
      <<"DEFWPT", [name |-> <<"W", "P", "1">>, lat |-> 52, lon |-> 4]>>,
      <<"DISPLAYFLAG", [flag |-> "SSD", args |-> <<"AB1">>]>>,
      <<"DISPLAYFLAG", [flag |-> "SYM", args |-> <<>>]>>,
      <<"ECHO", <<>> >> }

\* C19: after event(name, data, s) the dict nodedata has an entry for s: the
\* entry it had, or a new nodeData, with the event handled on it; the entry
\* of every other node, the default nodeData and the active node are as they
\* were; and an event of any other sender gives the same nodedata whether it
\* is handled before this event or after it.
C19_NodeIsolation ==
    [][ gret'.op = "event"
        => LET name == gret'.args[1]
               data == gret'.args[2]
               s    == gret'.args[3]
           IN  /\ DOMAIN nodedata' = DOMAIN nodedata \cup {s}
               /\ nodedata'[s] = event_on(sender_data_of(s), name, data)
               /\ \A n \in DOMAIN nodedata \ {s} : nodedata'[n] = nodedata[n]
               /\ default_data' = default_data
               /\ default_data' = NodeDataInit
               /\ act' = act
               /\ \A t \in Nodes \ {s}, b \in EventKinds :
                      event_nodedata(nodedata', b[1], b[2], t)
                    = event_nodedata(event_nodedata(nodedata, b[1], b[2], t), name, data, s)
      ]_vars

\* C19 witness: n2 sent a polygon after n1 had set an SSD flag and become the
\* active node; the mirror of n1 is as n1 left it
C19_Witness ==
    /\ gret = Ret("event", <<"POLY", [name |-> "A", data |-> Some(Points(2, 0))], "n2">>, <<>>)
    /\ act = "n1"
    /\ DOMAIN nodedata = {"n1", "n2"}
    /\ nodedata["n1"].ssd_ownship = {"AB1"}
    /\ nodedata["n1"].polydata = <<>>
    /\ nodedata["n2"].ssd_ownship = {}
    /\ nodedata["n2"].polydata = <<1, 2, 3, 4, 3, 4, 1, 2>>

=============================================================================
